---- MODULE Spec2Model ----
(***************************************************************************)
(* BrowserDeviceProfile (src/js/browser-device-profile.js): the capability *)
(* probes, the HLS-support memo and getDeviceProfile, which assembles the  *)
(* negotiation document sent to the media server.                          *)
(*                                                                         *)
(* Conventions of the model                                                *)
(*  - A platform version is kept in tenths: getTizenVersion returns        *)
(*    10*major + minor for the JavaScript number major + minor/10, and     *)
(*    every threshold of the code is written in tenths (5.5 is 55).        *)
(*  - A comma- or bar-joined list ("h264,hevc", "SDR|HDR10") is the        *)
(*    sequence of its tokens (<<"h264", "hevc">>); no token holds the      *)
(*    separator.                                                           *)
(*  - null is the empty sequence <<>>, a present number n is <<n>>.        *)
(*  - A probe that can raise has two operators: its value when it returns  *)
(*    (canPlayH264) and the condition under which it raises instead        *)
(*    (canPlayH264Throws).                                                 *)
(***************************************************************************)
EXTENDS Integers, Sequences, FiniteSets, TLC

VARIABLES
    platform,          \* the ambient runtime the probes read (globals, user agent, media element)
    canPlayHlsMemo,    \* _canPlayHls: <<>> (null) or <<b>>
    result,            \* what the most recent call of the public API returned or raised,
                       \* for as long as the platform it ran on stands
    seen,              \* earlier calls kept for comparison, a sequence of records: the
                       \* remembered getDeviceProfile call (Remember), or what each caller
                       \* of canPlayHls received (CallerCanPlayHls)
    details,           \* the Details component: its itemId prop and its useState values,
                       \* <<>> while the component is not mounted
    loads,             \* the loadItem and loadEpisodes invocations made so far, each with
                       \* the request it awaits
    catalogue          \* the server: the Type of each item

vars == <<platform, canPlayHlsMemo, result, seen, details, loads, catalogue>>

----------------------------------------------------------------------------
(* The type strings the probes hand to canPlayType.                        *)

T_h264      == "video/mp4; codecs=\"avc1.42E01E, mp4a.40.2\""
T_hvc1      == "video/mp4; codecs=\"hvc1.1.L120\""
T_hev1      == "video/mp4; codecs=\"hev1.1.L120\""
T_hvc1_0    == "video/mp4; codecs=\"hvc1.1.0.L120\""
T_hev1_0    == "video/mp4; codecs=\"hev1.1.0.L120\""
T_av1_08    == "video/mp4; codecs=\"av01.0.15M.08\""
T_av1_10    == "video/mp4; codecs=\"av01.0.15M.10\""
T_ac3       == "audio/mp4; codecs=\"ac-3\""
T_eac3      == "audio/mp4; codecs=\"ec-3\""
T_dtsMinus  == "video/mp4; codecs=\"dts-\""
T_dtsPlus   == "video/mp4; codecs=\"dts+\""
T_mpegURL   == "application/x-mpegURL"
T_appleURL  == "application/vnd.apple.mpegURL"
T_matroska  == "video/x-matroska"
T_mkv       == "video/mkv"
T_avcL51    == "video/mp4; codecs=\"avc1.640833\""
T_hevcL186  == "video/mp4; codecs=\"hvc1.2.4.L186\""
T_hevcL183  == "video/mp4; codecs=\"hvc1.2.4.L183\""
T_hevcL153  == "video/mp4; codecs=\"hvc1.2.4.L153\""
T_hvc1Main10 == "video/mp4; codecs=\"hvc1.2.4.L123\""
T_hev1Main10 == "video/mp4; codecs=\"hev1.2.4.L123\""
T_opus      == "audio/ogg; codecs=\"opus\""
T_webma     == "audio/webm"
T_mp3       == "audio/mpeg"
T_aac       == "audio/mp4; codecs=\"mp4a.40.2\""
T_flac      == "audio/flac"
T_wav       == "audio/wav"
T_ogg       == "audio/ogg"

VideoElementTypes ==
    { T_h264, T_hvc1, T_hev1, T_hvc1_0, T_hev1_0, T_av1_08, T_av1_10, T_ac3, T_eac3,
      T_dtsMinus, T_dtsPlus, T_mpegURL, T_appleURL, T_matroska, T_mkv, T_avcL51,
      T_hevcL186, T_hevcL183, T_hevcL153, T_hvc1Main10, T_hev1Main10 }

AudioElementTypes == { T_opus, T_webma, T_mp3, T_aac, T_flac, T_wav, T_ogg }

Types == VideoElementTypes \cup AudioElementTypes

----------------------------------------------------------------------------
(* The runtime's media element.  platform.canPlayType is the kind of the   *)
(* element's canPlayType member: "function" (answers with a string),       *)
(* "undefined" (no such member), "nonstring" (answers undefined, so the    *)
(* probe's .replace raises a TypeError) or "throws" (the call raises).     *)
(* platform.can is the set of type strings answered positively, and        *)
(* platform.dialect the strings used: "html5" answers "probably"/"",       *)
(* "legacy" answers "maybe"/"no".                                          *)

CanPlayTypeKinds == {"function", "undefined", "nonstring", "throws"}
Dialects == {"html5", "legacy"}

canPlayType(p, t) ==
    IF t \in p.can
    THEN (IF p.dialect = "html5" THEN "probably" ELSE "maybe")
    ELSE (IF p.dialect = "html5" THEN "" ELSE "no")

\* String.prototype.replace(/no/, "") on a canPlayType answer
replaceNo(s) == IF s = "no" THEN "" ELSE s

\* JavaScript truthiness of a string
truthy(s) == s # ""

\* `el.canPlayType && el.canPlayType(t).replace(/no/, "")`, as a boolean
canPlay(p, t) ==
    /\ p.canPlayType # "undefined"
    /\ truthy(replaceNo(canPlayType(p, t)))

\* the same expression raises instead of giving a value
canPlayThrows(p) == p.canPlayType \in {"nonstring", "throws"}

----------------------------------------------------------------------------
(* The probes.                                                             *)

\* userAgent is <<>> (no "tizen" in it), <<"Tizen">> (the word, no major.minor after
\* it) or <<"Tizen", major, minor>>
isTizen(p) == p.tizen \/ p.userAgent # <<>>

\* in tenths: parseInt(major) + parseInt(minor)/10; the default 4.0 is 40
getTizenVersion(p) ==
    IF ~isTizen(p) THEN 0
    ELSE IF Len(p.userAgent) = 3 THEN 10 * p.userAgent[2] + p.userAgent[3]
    ELSE 40

canPlayH264(p) == canPlay(p, T_h264)
canPlayH264Throws(p) == canPlayThrows(p)

canPlayHevc(p) ==
    IF isTizen(p) THEN TRUE
    ELSE \/ canPlay(p, T_hvc1)
         \/ canPlay(p, T_hev1)
         \/ canPlay(p, T_hvc1_0)
         \/ canPlay(p, T_hev1_0)
canPlayHevcThrows(p) == ~isTizen(p) /\ canPlayThrows(p)

\* canPlayAv1 with the threshold test written > 5.5
canPlayAv1_above55(p) ==
    IF getTizenVersion(p) > 55 THEN TRUE
    ELSE canPlay(p, T_av1_08) /\ canPlay(p, T_av1_10)

\* canPlayAv1 content with either of the two native queries
canPlayAv1_eitherQuery(p) ==
    IF getTizenVersion(p) >= 55 THEN TRUE
    ELSE canPlay(p, T_av1_08) \/ canPlay(p, T_av1_10)

canPlayAv1(p) ==
    IF getTizenVersion(p) >= 55 THEN TRUE
    ELSE canPlay(p, T_av1_08) /\ canPlay(p, T_av1_10)
canPlayAv1Throws(p) == getTizenVersion(p) < 55 /\ canPlayThrows(p)

supportsAc3(p) == IF isTizen(p) THEN TRUE ELSE canPlay(p, T_ac3)
supportsAc3Throws(p) == ~isTizen(p) /\ canPlayThrows(p)

supportsEac3(p) == IF isTizen(p) THEN TRUE ELSE canPlay(p, T_eac3)
supportsEac3Throws(p) == ~isTizen(p) /\ canPlayThrows(p)

\* canPlayDts without the version test in front of the native queries
canPlayDts_noVersionTest(p) == canPlay(p, T_dtsMinus) \/ canPlay(p, T_dtsPlus)

canPlayDts(p) ==
    IF getTizenVersion(p) >= 40 THEN FALSE
    ELSE canPlay(p, T_dtsMinus) \/ canPlay(p, T_dtsPlus)
canPlayDtsThrows(p) == getTizenVersion(p) < 40 /\ canPlayThrows(p)

canPlayNativeHls(p) ==
    IF isTizen(p) THEN TRUE
    ELSE canPlay(p, T_mpegURL) \/ canPlay(p, T_appleURL)
canPlayNativeHlsThrows(p) == ~isTizen(p) /\ canPlayThrows(p)

canPlayHlsWithMSE(p) == p.MediaSource

\* canPlayHls returning what it computes on every call, the memo notwithstanding
canPlayHls_noMemo(p, m) == canPlayNativeHls(p) \/ canPlayHlsWithMSE(p)

\* canPlayHls: the value returned with the memo at m, and the memo afterwards
canPlayHls(p, m) ==
    IF m = <<>> THEN canPlayNativeHls(p) \/ canPlayHlsWithMSE(p) ELSE m[1]
canPlayHlsThrows(p, m) == m = <<>> /\ canPlayNativeHlsThrows(p)
\* the memo with the test written `!_canPlayHls`: a memo of false is computed again
canPlayHlsMemoAfter_falsyTest(p, m) ==
    IF m = <<>> \/ ~m[1] THEN <<canPlayNativeHls(p) \/ canPlayHlsWithMSE(p)>> ELSE m

\* the memo written by every call, not only by the one that finds it null
canPlayHlsMemoAfter_overwrite(p, m) == <<canPlayNativeHls(p) \/ canPlayHlsWithMSE(p)>>

canPlayHlsMemoAfter(p, m) ==
    IF m = <<>> THEN <<canPlayNativeHls(p) \/ canPlayHlsWithMSE(p)>> ELSE m

\* canPlayNativeHlsInFmp4 with the version test written > 5
canPlayNativeHlsInFmp4_above5(p) == getTizenVersion(p) > 50

canPlayNativeHlsInFmp4(p) == getTizenVersion(p) >= 50

supportsHdr10(p) == isTizen(p)
supportsHlg(p) == supportsHdr10(p)
supportsDolbyVision(p) == FALSE

canPlayMkv(p) ==
    IF isTizen(p) THEN TRUE
    ELSE canPlay(p, T_matroska) \/ canPlay(p, T_mkv)
canPlayMkvThrows(p) == ~isTizen(p) /\ canPlayThrows(p)

canPlayTs(p) == isTizen(p)

\* the type string canPlayAudioFormat asks about, <<>> when the format has none
audioTypeString(format) ==
    CASE format = "opus" -> <<T_opus>>
      [] format = "webma" -> <<T_webma>>
      [] format = "mp3" -> <<T_mp3>>
      [] format = "aac" -> <<T_aac>>
      [] format = "flac" -> <<T_flac>>
      [] format = "wav" -> <<T_wav>>
      [] format = "ogg" -> <<T_ogg>>
      [] OTHER -> <<>>

\* canPlayAudioFormat without the TV platform's answer for flac, asf and wma
canPlayAudioFormat_noTvFormats(p, format) ==
    IF audioTypeString(format) # <<>> THEN canPlay(p, audioTypeString(format)[1])
    ELSE FALSE

canPlayAudioFormat(p, format) ==
    IF isTizen(p) /\ format \in {"flac", "asf", "wma"} THEN TRUE
    ELSE IF audioTypeString(format) # <<>> THEN canPlay(p, audioTypeString(format)[1])
    ELSE FALSE
canPlayAudioFormatThrows(p, format) ==
    /\ ~(isTizen(p) /\ format \in {"flac", "asf", "wma"})
    /\ audioTypeString(format) # <<>>
    /\ canPlayThrows(p)

\* getMaxH264Level testing level 5.1 with the type string canPlayH264 asks about
getMaxH264Level_baselineTag(p) ==
    IF getTizenVersion(p) >= 50 THEN 52
    ELSE IF isTizen(p) THEN 51
    ELSE IF canPlay(p, T_h264) THEN 51
    ELSE 42

getMaxH264Level(p) ==
    IF getTizenVersion(p) >= 50 THEN 52
    ELSE IF isTizen(p) THEN 51
    ELSE IF canPlay(p, T_avcL51) THEN 51
    ELSE 42
getMaxH264LevelThrows(p) == ~isTizen(p) /\ canPlayThrows(p)

getMaxHevcLevel(p) ==
    IF canPlay(p, T_hevcL186) THEN 186
    ELSE IF canPlay(p, T_hevcL183) THEN 183
    ELSE IF canPlay(p, T_hevcL153) THEN 153
    ELSE IF isTizen(p) THEN 153
    ELSE 120
getMaxHevcLevelThrows(p) == canPlayThrows(p)

getHevcProfiles(p) ==
    IF canPlay(p, T_hvc1Main10) \/ canPlay(p, T_hev1Main10) THEN <<"main", "main 10">>
    ELSE IF isTizen(p) THEN <<"main", "main 10">>
    ELSE <<"main">>
getHevcProfilesThrows(p) == canPlayThrows(p)

getPhysicalAudioChannels(p) == IF isTizen(p) THEN 6 ELSE 2

\* platform.webapis: "undefined" (no webapis global), "noProductinfo" (webapis without
\* productinfo), "uhd" / "fhd" (isUdPanelSupported() answers true / false) or "throws"
\* (isUdPanelSupported() raises, which the try/catch swallows)
WebapisKinds == {"undefined", "noProductinfo", "uhd", "fhd", "throws"}

\* getGlobalMaxVideoBitrate without the isTizen() test around the panel query
getGlobalMaxVideoBitrate_noTizenTest(p) ==
    IF p.webapis = "fhd" THEN <<20000000>> ELSE <<>>

getGlobalMaxVideoBitrate(p) ==
    IF isTizen(p) /\ p.webapis = "fhd" THEN <<20000000>> ELSE <<>>

\* `if (globalMaxVideoBitrate)`: neither null nor 0
hasCeiling(b) == b # <<>> /\ b[1] # 0

\* shouldUseHlsJs without the MediaSource test
shouldUseHlsJs_noMediaSourceTest(p) ==
    IF isTizen(p) THEN FALSE
    ELSE IF ~canPlayNativeHls(p) THEN TRUE
    ELSE FALSE

shouldUseHlsJs(p) ==
    IF isTizen(p) THEN FALSE
    ELSE IF p.MediaSource /\ ~canPlayNativeHls(p) THEN TRUE
    ELSE FALSE
shouldUseHlsJsThrows(p) == ~isTizen(p) /\ p.MediaSource /\ canPlayThrows(p)

----------------------------------------------------------------------------
(* getDeviceProfile: the lists it builds, in the order of the code.        *)

\* Array.prototype.push under a condition
pushIf(cond, list, items) == IF cond THEN list \o items ELSE list

\* videoAudioCodecs with the opus test chained as an else-branch of the DTS test
videoAudioCodecs_opusElseDts(p) ==
    LET a0 == <<"aac", "mp3">>
        a1 == pushIf(supportsAc3(p), a0, <<"ac3">>)
        a2 == pushIf(supportsEac3(p), a1, <<"eac3">>)
        a3 == pushIf(canPlayDts(p), a2, <<"dca", "dts">>)
        a4 == pushIf(isTizen(p), a3, <<"pcm_s16le", "pcm_s24le", "aac_latm">>)
        a5 == pushIf(~canPlayDts(p) /\ canPlayAudioFormat(p, "opus"), a4, <<"opus">>)
    IN  pushIf(canPlayAudioFormat(p, "flac") /\ ~isTizen(p), a5, <<"flac">>)

videoAudioCodecs(p) ==
    LET a0 == <<"aac", "mp3">>
        a1 == pushIf(supportsAc3(p), a0, <<"ac3">>)
        a2 == pushIf(supportsEac3(p), a1, <<"eac3">>)
        a3 == pushIf(canPlayDts(p), a2, <<"dca", "dts">>)
        a4 == pushIf(isTizen(p), a3, <<"pcm_s16le", "pcm_s24le", "aac_latm">>)
        a5 == pushIf(canPlayAudioFormat(p, "opus"), a4, <<"opus">>)
    IN  pushIf(canPlayAudioFormat(p, "flac") /\ ~isTizen(p), a5, <<"flac">>)

mp4VideoCodecs(p) ==
    LET v1 == pushIf(canPlayH264(p), <<>>, <<"h264">>)
        v2 == pushIf(canPlayHevc(p), v1, <<"hevc">>)
    IN  pushIf(canPlayAv1(p), v2, <<"av1">>)

mkvVideoCodecs(p) ==
    LET v1 == pushIf(canPlayH264(p), <<>>, <<"h264">>)
        v2 == pushIf(canPlayHevc(p), v1, <<"hevc">>)
    IN  pushIf(canPlayAv1(p), v2, <<"av1">>)

hlsVideoCodecs(p) ==
    LET v1 == pushIf(canPlayH264(p), <<>>, <<"h264">>)
    IN  pushIf(canPlayHevc(p) /\ isTizen(p), v1, <<"hevc">>)

hlsAudioCodecs(p) ==
    LET a1 == pushIf(supportsAc3(p), <<"aac", "mp3">>, <<"ac3">>)
    IN  pushIf(supportsEac3(p), a1, <<"eac3">>)

tsVideoCodecs(p) == pushIf(canPlayHevc(p), <<"h264">>, <<"hevc">>)

VideoDirectPlay(container, videoCodecs, audioCodecs) ==
    [Container |-> container, Type |-> "Video",
     VideoCodec |-> videoCodecs, AudioCodec |-> audioCodecs]

AudioDirectPlay(format) == [Container |-> <<format>>, Type |-> "Audio"]

\* forEach over a fixed format list, keeping the formats canPlayAudioFormat accepts
RECURSIVE audioFormats(_, _)
audioFormats(p, formats) ==
    IF formats = <<>> THEN <<>>
    ELSE pushIf(canPlayAudioFormat(p, Head(formats)), <<>>, <<Head(formats)>>)
         \o audioFormats(p, Tail(formats))

\* DirectPlayProfiles with the hls rule pushed on canPlayHls() alone
DirectPlayProfiles_hlsUnguarded(p, hls) ==
    LET d1 == pushIf(Len(mp4VideoCodecs(p)) # 0, <<>>,
                     <<VideoDirectPlay(<<"mp4", "m4v">>, mp4VideoCodecs(p), videoAudioCodecs(p))>>)
        d2 == pushIf(canPlayMkv(p) /\ Len(mkvVideoCodecs(p)) # 0, d1,
                     <<VideoDirectPlay(<<"mkv">>, mkvVideoCodecs(p), videoAudioCodecs(p))>>)
        d3 == pushIf(canPlayTs(p), d2,
                     <<VideoDirectPlay(<<"ts", "mpegts">>, tsVideoCodecs(p), videoAudioCodecs(p))>>)
        d4 == pushIf(hls, d3,
                     <<VideoDirectPlay(<<"hls">>, hlsVideoCodecs(p), hlsAudioCodecs(p))>>)
        fs == audioFormats(p, <<"mp3", "aac", "flac", "wav", "ogg", "opus">>)
    IN  d4 \o [i \in 1..Len(fs) |-> AudioDirectPlay(fs[i])]

\* hls is what canPlayHls() returns during the call
DirectPlayProfiles(p, hls) ==
    LET d1 == pushIf(Len(mp4VideoCodecs(p)) # 0, <<>>,
                     <<VideoDirectPlay(<<"mp4", "m4v">>, mp4VideoCodecs(p), videoAudioCodecs(p))>>)
        d2 == pushIf(canPlayMkv(p) /\ Len(mkvVideoCodecs(p)) # 0, d1,
                     <<VideoDirectPlay(<<"mkv">>, mkvVideoCodecs(p), videoAudioCodecs(p))>>)
        d3 == pushIf(canPlayTs(p), d2,
                     <<VideoDirectPlay(<<"ts", "mpegts">>, tsVideoCodecs(p), videoAudioCodecs(p))>>)
        d4 == pushIf(hls /\ Len(hlsVideoCodecs(p)) # 0, d3,
                     <<VideoDirectPlay(<<"hls">>, hlsVideoCodecs(p), hlsAudioCodecs(p))>>)
        fs == audioFormats(p, <<"mp3", "aac", "flac", "wav", "ogg", "opus">>)
    IN  d4 \o [i \in 1..Len(fs) |-> AudioDirectPlay(fs[i])]

HlsTranscoding(p) ==
    [Container |-> IF canPlayNativeHlsInFmp4(p) THEN "mp4" ELSE "ts",
     Type |-> "Video",
     AudioCodec |-> hlsAudioCodecs(p),
     VideoCodec |-> hlsVideoCodecs(p),
     Context |-> "Streaming",
     Protocol |-> "hls",
     MaxAudioChannels |-> ToString(getPhysicalAudioChannels(p)),
     MinSegments |-> "1",
     BreakOnNonKeyFrames |-> FALSE]

AudioTranscoding(p, format) ==
    [Container |-> format,
     Type |-> "Audio",
     AudioCodec |-> <<format>>,
     Context |-> "Streaming",
     Protocol |-> "http",
     MaxAudioChannels |-> ToString(getPhysicalAudioChannels(p))]

TranscodingProfiles(p, hls) ==
    LET t1 == pushIf(hls /\ Len(hlsVideoCodecs(p)) # 0, <<>>, <<HlsTranscoding(p)>>)
        fs == audioFormats(p, <<"aac", "mp3", "opus", "wav">>)
    IN  t1 \o [i \in 1..Len(fs) |-> AudioTranscoding(p, fs[i])]

Cond(condition, property, value, isRequired) ==
    [Condition |-> condition, Property |-> property, Value |-> value, IsRequired |-> isRequired]

ContainerProfiles(p) ==
    pushIf(getTizenVersion(p) < 65, <<>>,
           <<[Type |-> "Video",
              Conditions |-> <<Cond("LessThanEqual", "NumStreams", "32", FALSE)>>]>>)

\* bitrateConditions with the condition left advisory
bitrateConditions_advisory(p) ==
    pushIf(hasCeiling(getGlobalMaxVideoBitrate(p)), <<>>,
           <<Cond("LessThanEqual", "VideoBitrate",
                  ToString(getGlobalMaxVideoBitrate(p)[1]), FALSE)>>)

\* the required VideoBitrate condition pushed onto a codec's conditions
bitrateConditions(p) ==
    pushIf(hasCeiling(getGlobalMaxVideoBitrate(p)), <<>>,
           <<Cond("LessThanEqual", "VideoBitrate",
                  ToString(getGlobalMaxVideoBitrate(p)[1]), TRUE)>>)

h264Conditions(p) ==
    << Cond("EqualsAny", "VideoProfile",
            <<"high", "main", "baseline", "constrained baseline">>, FALSE),
       Cond("EqualsAny", "VideoRangeType", <<"SDR">>, FALSE),
       Cond("LessThanEqual", "VideoLevel", ToString(getMaxH264Level(p)), FALSE) >>
    \o bitrateConditions(p)

\* hevcVideoRangeTypes with the version test written > 3
hevcVideoRangeTypes_above3(p) ==
    LET r1 == pushIf(supportsHdr10(p), <<"SDR">>, <<"HDR10", "HDR10Plus">>)
        r2 == pushIf(supportsHlg(p), r1, <<"HLG">>)
        r3 == pushIf(getTizenVersion(p) > 30, r2,
                     <<"DOVIWithHDR10", "DOVIWithHDR10Plus", "DOVIWithSDR", "DOVIWithHLG">>)
    IN  pushIf(getTizenVersion(p) > 30, r3,
               <<"DOVIWithEL", "DOVIWithELHDR10Plus", "DOVIInvalid">>)

hevcVideoRangeTypes(p) ==
    LET r1 == pushIf(supportsHdr10(p), <<"SDR">>, <<"HDR10", "HDR10Plus">>)
        r2 == pushIf(supportsHlg(p), r1, <<"HLG">>)
        r3 == pushIf(getTizenVersion(p) >= 30, r2,
                     <<"DOVIWithHDR10", "DOVIWithHDR10Plus", "DOVIWithSDR", "DOVIWithHLG">>)
    IN  pushIf(getTizenVersion(p) >= 30, r3,
               <<"DOVIWithEL", "DOVIWithELHDR10Plus", "DOVIInvalid">>)

hevcConditions(p) ==
    << Cond("EqualsAny", "VideoProfile", getHevcProfiles(p), FALSE),
       Cond("EqualsAny", "VideoRangeType", hevcVideoRangeTypes(p), FALSE),
       Cond("LessThanEqual", "VideoLevel", ToString(getMaxHevcLevel(p)), FALSE) >>
    \o bitrateConditions(p)

av1VideoRangeTypes(p) ==
    LET r1 == pushIf(supportsHdr10(p), <<"SDR">>, <<"HDR10", "HDR10Plus">>)
        r2 == pushIf(supportsHlg(p), r1, <<"HLG">>)
    IN  pushIf(getTizenVersion(p) >= 30, r2,
               <<"DOVIWithHDR10", "DOVIWithHDR10Plus", "DOVIWithEL",
                 "DOVIWithELHDR10Plus", "DOVIInvalid">>)

av1Conditions(p) ==
    << Cond("EqualsAny", "VideoProfile", <<"main">>, FALSE),
       Cond("EqualsAny", "VideoRangeType", av1VideoRangeTypes(p), FALSE),
       Cond("LessThanEqual", "VideoLevel", "15", FALSE) >>
    \o bitrateConditions(p)

VideoCodecProfile(codec, conditions) ==
    [Type |-> "Video", Codec |-> codec, Conditions |-> conditions]

\* CodecProfiles with the av1 profile pushed like the h264 and hevc ones
CodecProfiles_av1Always(p) ==
    LET c1 == << VideoCodecProfile("h264", h264Conditions(p)),
                 VideoCodecProfile("hevc", hevcConditions(p)),
                 VideoCodecProfile("av1", av1Conditions(p)) >>
        c3 == pushIf(hasCeiling(getGlobalMaxVideoBitrate(p)), c1,
                     <<[Type |-> "Video",
                        Conditions |->
                            <<[Condition |-> "LessThanEqual", Property |-> "VideoBitrate",
                               Value |-> ToString(getGlobalMaxVideoBitrate(p)[1])]>>]>>)
    IN  c3 \o <<[Type |-> "VideoAudio",
                 Conditions |->
                     <<Cond("LessThanEqual", "AudioChannels",
                            ToString(getPhysicalAudioChannels(p)), FALSE)>>]>>

CodecProfiles(p) ==
    LET c1 == << VideoCodecProfile("h264", h264Conditions(p)),
                 VideoCodecProfile("hevc", hevcConditions(p)) >>
        c2 == pushIf(canPlayAv1(p), c1, <<VideoCodecProfile("av1", av1Conditions(p))>>)
        c3 == pushIf(hasCeiling(getGlobalMaxVideoBitrate(p)), c2,
                     <<[Type |-> "Video",
                        Conditions |->
                            <<[Condition |-> "LessThanEqual", Property |-> "VideoBitrate",
                               Value |-> ToString(getGlobalMaxVideoBitrate(p)[1])]>>]>>)
    IN  c3 \o <<[Type |-> "VideoAudio",
                 Conditions |->
                     <<Cond("LessThanEqual", "AudioChannels",
                            ToString(getPhysicalAudioChannels(p)), FALSE)>>]>>

SubtitleProfiles ==
    << [Format |-> "vtt", Method |-> "External"],
       [Format |-> "srt", Method |-> "External"],
       [Format |-> "ass", Method |-> "External"],
       [Format |-> "ssa", Method |-> "External"],
       [Format |-> "pgssub", Method |-> "Encode"],
       [Format |-> "dvdsub", Method |-> "Encode"],
       [Format |-> "dvbsub", Method |-> "Encode"],
       [Format |-> "sub", Method |-> "Encode"] >>

ResponseProfiles == << [Type |-> "Video", Container |-> "m4v", MimeType |-> "video/mp4"] >>

\* getDeviceProfile with the streaming bitrate taken from the options when they give one
getDeviceProfile_optionsBitrate(p, m, options) ==
    [MaxStreamingBitrate |-> IF options = "{maxBitrate}" THEN 40000000 ELSE 120000000,
     MaxStaticBitrate |-> 100000000,
     MusicStreamingTranscodingBitrate |-> 384000,
     DirectPlayProfiles |-> DirectPlayProfiles(p, canPlayHls(p, m)),
     TranscodingProfiles |-> TranscodingProfiles(p, canPlayHls(p, m)),
     ContainerProfiles |-> ContainerProfiles(p),
     CodecProfiles |-> CodecProfiles(p),
     SubtitleProfiles |-> SubtitleProfiles,
     ResponseProfiles |-> ResponseProfiles]

\* The document getDeviceProfile(options) returns when no probe raises; m is the memo
\* at the time of the call.  options is replaced by {} when absent and not read again.
getDeviceProfile(p, m, options) ==
    [MaxStreamingBitrate |-> 120000000,
     MaxStaticBitrate |-> 100000000,
     MusicStreamingTranscodingBitrate |-> 384000,
     DirectPlayProfiles |-> DirectPlayProfiles(p, canPlayHls(p, m)),
     TranscodingProfiles |-> TranscodingProfiles(p, canPlayHls(p, m)),
     ContainerProfiles |-> ContainerProfiles(p),
     CodecProfiles |-> CodecProfiles(p),
     SubtitleProfiles |-> SubtitleProfiles,
     ResponseProfiles |-> ResponseProfiles]

\* getDeviceProfile raises when one of the probes it calls does (none is wrapped in a
\* try/catch but the panel query); the probes are listed in call order
getDeviceProfileThrows(p, m) ==
    \/ supportsAc3Throws(p)
    \/ supportsEac3Throws(p)
    \/ canPlayDtsThrows(p)
    \/ canPlayAudioFormatThrows(p, "opus")
    \/ canPlayAudioFormatThrows(p, "flac")
    \/ canPlayH264Throws(p)
    \/ canPlayHevcThrows(p)
    \/ canPlayAv1Throws(p)
    \/ canPlayMkvThrows(p)
    \/ canPlayHlsThrows(p, m)
    \/ \E f \in {"mp3", "aac", "flac", "wav", "ogg", "opus"} : canPlayAudioFormatThrows(p, f)
    \/ getMaxH264LevelThrows(p)
    \/ getMaxHevcLevelThrows(p)
    \/ getHevcProfilesThrows(p)

\* the memo after the call: canPlayHls() (line 518) is reached only when every probe
\* before it returned
memoAfterGetDeviceProfile(p, m) ==
    IF \/ supportsAc3Throws(p) \/ supportsEac3Throws(p) \/ canPlayDtsThrows(p)
       \/ canPlayAudioFormatThrows(p, "opus") \/ canPlayAudioFormatThrows(p, "flac")
       \/ canPlayH264Throws(p) \/ canPlayHevcThrows(p) \/ canPlayAv1Throws(p)
       \/ canPlayMkvThrows(p) \/ canPlayHlsThrows(p, m)
    THEN m
    ELSE canPlayHlsMemoAfter(p, m)

----------------------------------------------------------------------------
(* The platforms the model starts on.                                      *)

MaxMajor == 6        \* user agents "Tizen M.m" are drawn with M in 2..MaxMajor
MaxAnswers == 2      \* canPlayType answers at most MaxAnswers of the type strings positively

Minors == {0, 5}

UserAgents ==
    {<<>>, <<"Tizen">>} \cup {<<"Tizen", M, m>> : M \in 2..MaxMajor, m \in Minors}

\* the type strings whose answer a probe's result can depend on, on a platform of this
\* identity: the others are never handed to canPlayType there (audio/webm anywhere;
\* HEVC, AC-3, E-AC-3, HLS, MKV, FLAC and the H.264 level on the TV platform) or are
\* asked for an answer the TV platform's default equals (HEVC level 5.1 and Main 10),
\* so they are left unanswered
queriedTypes(tizenGlobal, ua) ==
    LET id == [tizen |-> tizenGlobal, userAgent |-> ua]
    IN  IF ~isTizen(id) THEN Types \ {T_webma}
        ELSE {T_h264, T_hevcL186, T_hevcL183, T_opus, T_mp3, T_aac, T_wav, T_ogg}
             \cup (IF getTizenVersion(id) < 55 THEN {T_av1_08, T_av1_10} ELSE {})
             \cup (IF getTizenVersion(id) < 40 THEN {T_dtsMinus, T_dtsPlus} ELSE {})

\* the subsets of Q of at most k elements
RECURSIVE subsetsUpTo(_, _)
subsetsUpTo(Q, k) ==
    IF k = 0 THEN {{}}
    ELSE LET smaller == subsetsUpTo(Q, k - 1)
         IN  smaller \cup {S \cup {x} : S \in smaller, x \in Q}

Answers(tizenGlobal, ua) == subsetsUpTo(queriedTypes(tizenGlobal, ua), MaxAnswers)

NoResult == [op |-> "none"]

Init ==
    /\ \E g \in BOOLEAN, ua \in UserAgents, ms \in BOOLEAN, w \in WebapisKinds :
         \* a user agent naming the TV platform is that of its own runtime
         /\ ua # <<>> => g
         \* MediaSource is read only off the TV platform, webapis only on it
         /\ isTizen([tizen |-> g, userAgent |-> ua]) => ms
         /\ ~isTizen([tizen |-> g, userAgent |-> ua]) => w = "undefined"
         /\ \/ \E d \in Dialects, c \in Answers(g, ua) :
                 \* the TV platform's runtime answers in the HTML5 dialect
                 /\ isTizen([tizen |-> g, userAgent |-> ua]) => d = "html5"
                 /\ platform = [tizen |-> g, userAgent |-> ua, canPlayType |-> "function",
                                dialect |-> d, can |-> c, MediaSource |-> ms, webapis |-> w]
            \/ \E k \in CanPlayTypeKinds \ {"function"} :
                 platform = [tizen |-> g, userAgent |-> ua, canPlayType |-> k,
                             dialect |-> "html5", can |-> {}, MediaSource |-> ms,
                             webapis |-> w]
    /\ canPlayHlsMemo = <<>>
    /\ result = NoResult
    /\ seen = <<>>
    /\ details = <<>>
    /\ loads = <<>>
    /\ catalogue = <<>>

----------------------------------------------------------------------------
(* The public API, one action per exported function the claims call.       *)

Options == {"undefined", "{}", "{maxBitrate}"}

\* getDeviceProfile handing out again the document of an earlier call, when one is kept
GetDeviceProfile_keepsDocument ==
    \E options \in Options :
        /\ result' =
             IF getDeviceProfileThrows(platform, canPlayHlsMemo)
             THEN [op |-> "getDeviceProfile", options |-> options, raised |-> TRUE]
             ELSE [op |-> "getDeviceProfile", options |-> options, raised |-> FALSE,
                   value |-> IF seen # <<>> THEN seen[1].value
                             ELSE getDeviceProfile(platform, canPlayHlsMemo, options)]
        /\ canPlayHlsMemo' = memoAfterGetDeviceProfile(platform, canPlayHlsMemo)
        /\ UNCHANGED <<platform, seen, details, loads, catalogue>>

\* getDeviceProfile(options)
GetDeviceProfile ==
    \E options \in Options :
        /\ result' =
             IF getDeviceProfileThrows(platform, canPlayHlsMemo)
             THEN [op |-> "getDeviceProfile", options |-> options, raised |-> TRUE]
             ELSE [op |-> "getDeviceProfile", options |-> options, raised |-> FALSE,
                   value |-> getDeviceProfile(platform, canPlayHlsMemo, options)]
        /\ canPlayHlsMemo' = memoAfterGetDeviceProfile(platform, canPlayHlsMemo)
        /\ UNCHANGED <<platform, seen, details, loads, catalogue>>

\* canPlayHls()
CanPlayHls ==
    /\ result' =
         IF canPlayHlsThrows(platform, canPlayHlsMemo)
         THEN [op |-> "canPlayHls", raised |-> TRUE]
         ELSE [op |-> "canPlayHls", raised |-> FALSE,
               value |-> canPlayHls(platform, canPlayHlsMemo)]
    /\ canPlayHlsMemo' =
         IF canPlayHlsThrows(platform, canPlayHlsMemo) THEN canPlayHlsMemo
         ELSE canPlayHlsMemoAfter(platform, canPlayHlsMemo)
    /\ UNCHANGED <<platform, seen, details, loads, catalogue>>

\* shouldUseHlsJs()
ShouldUseHlsJs ==
    /\ result' =
         IF shouldUseHlsJsThrows(platform)
         THEN [op |-> "shouldUseHlsJs", raised |-> TRUE]
         ELSE [op |-> "shouldUseHlsJs", raised |-> FALSE, value |-> shouldUseHlsJs(platform)]
    /\ UNCHANGED <<platform, canPlayHlsMemo, seen, details, loads, catalogue>>

----------------------------------------------------------------------------
(* The platform changing under the running process.                        *)

\* window.MediaSource appears or disappears
MediaSourceChanges ==
    /\ ~isTizen(platform)
    /\ platform' = [platform EXCEPT !.MediaSource = ~@]
    /\ result' = NoResult
    /\ UNCHANGED <<canPlayHlsMemo, seen, details, loads, catalogue>>

\* the webapis global initialises, or its panel query changes its answer
WebapisChanges ==
    /\ isTizen(platform)
    /\ \E w \in WebapisKinds \ {platform.webapis} :
         platform' = [platform EXCEPT !.webapis = w]
    /\ result' = NoResult
    /\ UNCHANGED <<canPlayHlsMemo, seen, details, loads, catalogue>>

\* the media element starts or stops answering one of the two HLS playlist types
NativeHlsChanges ==
    /\ ~isTizen(platform)
    /\ platform.canPlayType = "function"
    /\ \E t \in {T_mpegURL, T_appleURL} :
         platform' = [platform EXCEPT !.can = IF t \in @ THEN @ \ {t} ELSE @ \cup {t}]
    /\ result' = NoResult
    /\ UNCHANGED <<canPlayHlsMemo, seen, details, loads, catalogue>>

\* bookkeeping of the model, not of the program: keep the document just returned, and
\* the platform it was built on, to compare a later call with
Remember ==
    /\ seen = <<>>
    /\ result.op = "getDeviceProfile"
    /\ ~result.raised
    /\ seen' = <<[platform |-> platform, options |-> result.options,
                   value |-> result.value]>>
    /\ result' = NoResult
    /\ UNCHANGED <<platform, canPlayHlsMemo, details, loads, catalogue>>

Next ==
    \/ GetDeviceProfile
    \/ CanPlayHls
    \/ ShouldUseHlsJs
    \/ MediaSourceChanges
    \/ WebapisChanges

Spec == Init /\ [][Next]_vars

\* Call sequences over a changing platform: the media element answers at most the
\* H.264 and the HLS playlist type strings, and everything the memo depends on changes
InitSeq ==
    /\ Init
    /\ platform.canPlayType = "function"
    /\ platform.can \subseteq {T_h264, T_mpegURL, T_appleURL}

NextSeq ==
    \/ Next
    \/ NativeHlsChanges
    \/ Remember

SpecSeq == InitSeq /\ [][NextSeq]_vars

----------------------------------------------------------------------------
(* The probes called one by one, on every kind of platform: the globals    *)
(* tizen, webapis and MediaSource each present or not whatever the others  *)
(* are, and a media element that answers any of the H.264, the two DTS and  *)
(* the two AV1 type strings, also on a TV platform that never asks for     *)
(* them.                                                                   *)

InitProbes ==
    /\ \E g \in BOOLEAN, ua \in UserAgents, ms \in BOOLEAN, w \in WebapisKinds :
         /\ ua # <<>> => g
         /\ isTizen([tizen |-> g, userAgent |-> ua]) => ms
         /\ \/ \E d \in Dialects, c \in SUBSET {T_h264, T_dtsMinus, T_dtsPlus, T_av1_08, T_av1_10} :
                 platform = [tizen |-> g, userAgent |-> ua, canPlayType |-> "function",
                             dialect |-> d, can |-> c, MediaSource |-> ms, webapis |-> w]
            \/ \E k \in CanPlayTypeKinds \ {"function"} :
                 platform = [tizen |-> g, userAgent |-> ua, canPlayType |-> k,
                             dialect |-> "html5", can |-> {}, MediaSource |-> ms,
                             webapis |-> w]
    /\ canPlayHlsMemo = <<>>
    /\ result = NoResult
    /\ seen = <<>>
    /\ details = <<>>
    /\ loads = <<>>
    /\ catalogue = <<>>

\* getGlobalMaxVideoBitrate(): the try/catch keeps the panel query from raising
GetGlobalMaxVideoBitrate ==
    /\ result' = [op |-> "getGlobalMaxVideoBitrate", raised |-> FALSE,
                   value |-> getGlobalMaxVideoBitrate(platform)]
    /\ UNCHANGED <<platform, canPlayHlsMemo, seen, details, loads, catalogue>>

\* getTizenVersion()
GetTizenVersion ==
    /\ result' = [op |-> "getTizenVersion", raised |-> FALSE,
                   value |-> getTizenVersion(platform)]
    /\ UNCHANGED <<platform, canPlayHlsMemo, seen, details, loads, catalogue>>

\* canPlayDts()
CanPlayDts ==
    /\ result' =
         IF canPlayDtsThrows(platform)
         THEN [op |-> "canPlayDts", raised |-> TRUE]
         ELSE [op |-> "canPlayDts", raised |-> FALSE, value |-> canPlayDts(platform)]
    /\ UNCHANGED <<platform, canPlayHlsMemo, seen, details, loads, catalogue>>

\* canPlayAv1()
CanPlayAv1 ==
    /\ result' =
         IF canPlayAv1Throws(platform)
         THEN [op |-> "canPlayAv1", raised |-> TRUE]
         ELSE [op |-> "canPlayAv1", raised |-> FALSE, value |-> canPlayAv1(platform)]
    /\ UNCHANGED <<platform, canPlayHlsMemo, seen, details, loads, catalogue>>

NextProbes ==
    \/ GetGlobalMaxVideoBitrate
    \/ GetTizenVersion
    \/ CanPlayDts
    \/ CanPlayAv1
    \/ GetDeviceProfile

SpecProbes == InitProbes /\ [][NextProbes]_vars

----------------------------------------------------------------------------
(* Several callers of canPlayHls.  A caller is a callback of the page that *)
(* calls canPlayHls() once; the runtime runs one callback at a time and    *)
(* each to its end (canPlayHls has no await and no callback of its own),   *)
(* in any order, and the platform may change between two of them.          *)

MaxCallers == 3      \* callbacks calling canPlayHls() in one run

\* what the platform supports at this moment, read off the platform
HlsSupported ==
    \/ platform.tizen \/ platform.userAgent # <<>>
    \/ platform.canPlayType = "function" /\ {T_mpegURL, T_appleURL} \cap platform.can # {}
    \/ platform.MediaSource

\* one caller's canPlayHls(), run to its end; seen keeps what the caller received and
\* what the platform supported at that moment
CallerCanPlayHls ==
    /\ Len(seen) < MaxCallers
    /\ result' =
         IF canPlayHlsThrows(platform, canPlayHlsMemo)
         THEN [op |-> "canPlayHls", raised |-> TRUE]
         ELSE [op |-> "canPlayHls", raised |-> FALSE,
               value |-> canPlayHls(platform, canPlayHlsMemo)]
    /\ canPlayHlsMemo' =
         IF canPlayHlsThrows(platform, canPlayHlsMemo) THEN canPlayHlsMemo
         ELSE canPlayHlsMemoAfter(platform, canPlayHlsMemo)
    /\ seen' = Append(seen, [received |-> result', supported |-> HlsSupported,
                              memoBefore |-> canPlayHlsMemo])
    /\ UNCHANGED <<platform, details, loads, catalogue>>

\* the platforms of the callers: no product-info API, a user agent without version,
\* a media element that answers at most the two HLS playlist type strings
InitCallers ==
    /\ Init
    /\ platform.webapis = "undefined"
    /\ Len(platform.userAgent) < 3
    /\ platform.can \subseteq {T_mpegURL, T_appleURL}

NextCallers ==
    \/ CallerCanPlayHls
    \/ MediaSourceChanges
    \/ NativeHlsChanges

SpecCallers == InitCallers /\ [][NextCallers]_vars

----------------------------------------------------------------------------
(* The version probes on TV platforms of every release "Tizen M.m", the    *)
(* minor part of one or two digits.  The media element answers one of the  *)
(* DTS type strings and neither AV1 type string, so that canPlayDts and    *)
(* canPlayAv1 return what their version tests decide.                      *)

MaxMinor == 15

ReleaseUserAgents == {<<"Tizen", M, m>> : M \in 0..MaxMajor, m \in 0..MaxMinor}

InitReleases ==
    /\ \E ua \in ReleaseUserAgents :
         platform = [tizen |-> TRUE, userAgent |-> ua, canPlayType |-> "function",
                     dialect |-> "html5", can |-> {T_dtsMinus}, MediaSource |-> TRUE,
                     webapis |-> "undefined"]
    /\ canPlayHlsMemo = <<>>
    /\ result = NoResult
    /\ seen = <<>>
    /\ details = <<>>
    /\ loads = <<>>
    /\ catalogue = <<>>

NextReleases ==
    \/ GetTizenVersion
    \/ CanPlayDts
    \/ CanPlayAv1

SpecReleases == InitReleases /\ [][NextReleases]_vars

----------------------------------------------------------------------------
(* The Details component.  A value of the component's state is kept by the *)
(* item it was fetched for: <<>> for null or an empty list, <<id>> for     *)
(* data the server sent in answer to a request about item id.  The code    *)
(* between two awaits of an async function runs as one step; a step that   *)
(* changes item or selectedSeason is followed by the effect that starts    *)
(* loadEpisodes.                                                           *)

MaxItemId == 2
MaxLoads == 2

ItemIds == 1..MaxItemId

\* data.Type, as far as loadItem tells the values apart
ItemTypes == {"Series", "Season", "BoxSet", "Person", "Movie", "Episode", "Folder"}

SubtitleModes == {"always", "forced", "none"}

\* the useState initial values
initialState(id) ==
    [itemId |-> id, item |-> <<>>, seasons |-> <<>>, episodes |-> <<>>,
     similar |-> <<>>, cast |-> <<>>, nextUp |-> <<>>, collectionItems |-> <<>>,
     selectedSeason |-> <<>>, isLoading |-> TRUE, audioStreams |-> <<>>,
     subtitleStreams |-> <<>>, selectedAudioIndex |-> <<>>,
     selectedSubtitleIndex |-> <<>>]

\* loadItem up to its first await: everything but item is reset
loadItemStart(d) ==
    [d EXCEPT !.isLoading = TRUE, !.seasons = <<>>, !.episodes = <<>>,
              !.similar = <<>>, !.cast = <<>>, !.nextUp = <<>>,
              !.collectionItems = <<>>, !.selectedSeason = <<>>,
              !.audioStreams = <<>>, !.subtitleStreams = <<>>,
              !.selectedAudioIndex = <<>>, !.selectedSubtitleIndex = <<>>]

\* the request loadItem awaits after `call` for an item of this type, "done" when
\* none is left
afterCall(type, call) ==
    CASE call = "getItem" ->
            (CASE type = "Series" -> "getSeasons"
               [] type = "Season" -> "getEpisodes"
               [] type = "BoxSet" -> "getItems"
               [] type = "Person" -> "getItemsByPerson"
               [] OTHER -> "getSimilar")
      [] call = "getSeasons" -> "getNextUp"
      [] call = "getNextUp" -> "getSimilar"
      [] call = "getEpisodes" -> "getSimilar"
      [] call = "getSimilar" ->
            IF type \in {"Movie", "Episode"} THEN "getPlaybackInfo" ELSE "done"
      [] OTHER -> "done"

\* the finally block of loadItem
finally(d) == [d EXCEPT !.isLoading = FALSE]

\* the effect on [api, item, selectedSeason], run after a step that changed one of
\* them: the loadEpisodes invocations it adds
loadEpisodesEffect(d) ==
    IF d.selectedSeason = <<>> \/ d.item = <<>> THEN <<>>
    ELSE IF catalogue[d.item[1]] # "Series" THEN <<>>
    ELSE <<[fn |-> "loadEpisodes", itemId |-> d.item[1], awaiting |-> "getEpisodes"]>>

Awaits(i, call) ==
    /\ i \in 1..Len(loads)
    /\ loads[i].fn = "loadItem"
    /\ loads[i].awaiting = call

\* loadItem resumes after `call` with the state d its code has set; `changed` says
\* whether item or selectedSeason was set
Resume(i, call, d, changed) ==
    LET next == afterCall(catalogue[loads[i].itemId], call)
        d2 == IF next = "done" THEN finally(d) ELSE d
    IN  /\ details' = d2
        /\ loads' = [loads EXCEPT ![i].awaiting = next]
                        \o (IF changed THEN loadEpisodesEffect(d2) ELSE <<>>)

\* loadItem leaves through its outer catch
Fail(i) ==
    /\ details' = finally(details)
    /\ loads' = [loads EXCEPT ![i].awaiting = "done"]

profileVars == <<platform, canPlayHlsMemo, result, seen>>

\* the itemId prop changes: the effect on [api, itemId, settings.subtitleMode] calls
\* loadItem again, whatever earlier invocations still await
ItemIdChanges ==
    /\ Cardinality({i \in 1..Len(loads) : loads[i].fn = "loadItem"}) < MaxLoads
    /\ \E id \in ItemIds \ {details.itemId} :
         /\ details' = [loadItemStart(details) EXCEPT !.itemId = id]
         /\ loads' = Append(loads, [fn |-> "loadItem", itemId |-> id,
                                    awaiting |-> "getItem"])
    /\ UNCHANGED <<catalogue, profileVars>>

\* api.getItem(itemId) settles
GetItemSettles ==
    \E i \in 1..Len(loads), ok \in BOOLEAN, people \in BOOLEAN :
        /\ Awaits(i, "getItem")
        /\ IF ok
           THEN Resume(i, "getItem",
                       [details EXCEPT !.item = <<loads[i].itemId>>,
                                       !.cast = IF people THEN <<loads[i].itemId>> ELSE @],
                       TRUE)
           ELSE Fail(i)
        /\ UNCHANGED <<catalogue, profileVars>>

\* api.getSeasons(itemId) settles
GetSeasonsSettles ==
    \E i \in 1..Len(loads), ok \in BOOLEAN, items \in BOOLEAN :
        /\ Awaits(i, "getSeasons")
        /\ IF ok
           THEN Resume(i, "getSeasons",
                       [details EXCEPT
                            !.seasons = IF items THEN <<loads[i].itemId>> ELSE <<>>,
                            !.selectedSeason = IF items THEN <<loads[i].itemId>> ELSE @],
                       items)
           ELSE Fail(i)
        /\ UNCHANGED <<catalogue, profileVars>>

\* api.getNextUp(1, itemId) settles
GetNextUpSettles ==
    \E i \in 1..Len(loads), ok \in BOOLEAN, items \in BOOLEAN :
        /\ Awaits(i, "getNextUp")
        /\ Resume(i, "getNextUp",
                  [details EXCEPT
                       !.nextUp = IF ok /\ items THEN <<loads[i].itemId>> ELSE @],
                  FALSE)
        /\ UNCHANGED <<catalogue, profileVars>>

\* api.getEpisodes(data.SeriesId, data.Id) of loadItem settles
GetEpisodesSettles ==
    \E i \in 1..Len(loads), ok \in BOOLEAN, items \in BOOLEAN :
        /\ Awaits(i, "getEpisodes")
        /\ Resume(i, "getEpisodes",
                  [details EXCEPT
                       !.episodes = IF ~ok THEN @
                                    ELSE IF items THEN <<loads[i].itemId>> ELSE <<>>],
                  FALSE)
        /\ UNCHANGED <<catalogue, profileVars>>

\* api.getItems({ParentId: data.Id, ...}) settles
GetItemsSettles ==
    \E i \in 1..Len(loads), ok \in BOOLEAN, items \in BOOLEAN :
        /\ Awaits(i, "getItems")
        /\ Resume(i, "getItems",
                  [details EXCEPT
                       !.collectionItems = IF ~ok THEN @
                                           ELSE IF items THEN <<loads[i].itemId>> ELSE <<>>],
                  FALSE)
        /\ UNCHANGED <<catalogue, profileVars>>

\* api.getSimilar(itemId) settles
GetSimilarSettles ==
    \E i \in 1..Len(loads), ok \in BOOLEAN, items \in BOOLEAN :
        /\ Awaits(i, "getSimilar")
        /\ Resume(i, "getSimilar",
                  [details EXCEPT
                       !.similar = IF ~ok THEN @
                                   ELSE IF items THEN <<loads[i].itemId>> ELSE <<>>],
                  FALSE)
        /\ UNCHANGED <<catalogue, profileVars>>

\* api.getItemsByPerson(itemId, 50) settles
GetItemsByPersonSettles ==
    \E i \in 1..Len(loads), ok \in BOOLEAN, items \in BOOLEAN :
        /\ Awaits(i, "getItemsByPerson")
        /\ Resume(i, "getItemsByPerson",
                  [details EXCEPT
                       !.similar = IF ~ok THEN @
                                   ELSE IF items THEN <<loads[i].itemId>> ELSE <<>>],
                  FALSE)
        /\ UNCHANGED <<catalogue, profileVars>>

\* playback.getPlaybackInfo(data.Id) settles; a stream list is given by the kinds of
\* stream it holds
GetPlaybackInfoSettles ==
    \E i \in 1..Len(loads), ok \in BOOLEAN, subtitleMode \in SubtitleModes,
       audioStreams \in SUBSET {"default", "other"},
       subtitleStreams \in SUBSET {"default", "forced", "other"} :
        /\ Awaits(i, "getPlaybackInfo")
        /\ Resume(i, "getPlaybackInfo",
                  IF ~ok THEN details
                  ELSE [details EXCEPT
                       !.audioStreams = IF audioStreams # {} THEN <<loads[i].itemId>>
                                        ELSE <<>>,
                       !.subtitleStreams = IF subtitleStreams # {} THEN <<loads[i].itemId>>
                                           ELSE <<>>,
                       !.selectedAudioIndex =
                            IF "default" \in audioStreams THEN <<loads[i].itemId>> ELSE @,
                       !.selectedSubtitleIndex =
                            IF \/ subtitleMode = "always" /\ "default" \in subtitleStreams
                               \/ subtitleMode = "forced" /\ "forced" \in subtitleStreams
                            THEN <<loads[i].itemId>>
                            ELSE @],
                  FALSE)
        /\ UNCHANGED <<catalogue, profileVars>>

\* api.getEpisodes(item.Id, selectedSeason.Id) of loadEpisodes settles
LoadEpisodesSettles ==
    \E i \in 1..Len(loads), ok \in BOOLEAN, items \in BOOLEAN :
        /\ loads[i].fn = "loadEpisodes"
        /\ loads[i].awaiting = "getEpisodes"
        /\ details' = [details EXCEPT
                           !.episodes = IF ~ok THEN @
                                        ELSE IF items THEN <<loads[i].itemId>> ELSE <<>>]
        /\ loads' = [loads EXCEPT ![i].awaiting = "done"]
        /\ UNCHANGED <<catalogue, profileVars>>

\* the component has mounted with some itemId and its first loadItem awaits getItem
InitDetails ==
    /\ platform = [tizen |-> FALSE, userAgent |-> <<>>, canPlayType |-> "function",
                   dialect |-> "html5", can |-> {}, MediaSource |-> FALSE,
                   webapis |-> "undefined"]
    /\ canPlayHlsMemo = <<>>
    /\ result = NoResult
    /\ seen = <<>>
    /\ catalogue \in [ItemIds -> ItemTypes]
    /\ \E id \in ItemIds :
         /\ details = loadItemStart(initialState(id))
         /\ loads = <<[fn |-> "loadItem", itemId |-> id, awaiting |-> "getItem"]>>

NextDetails ==
    \/ ItemIdChanges
    \/ GetItemSettles
    \/ GetSeasonsSettles
    \/ GetNextUpSettles
    \/ GetEpisodesSettles
    \/ GetItemsSettles
    \/ GetSimilarSettles
    \/ GetItemsByPersonSettles
    \/ GetPlaybackInfoSettles
    \/ LoadEpisodesSettles

SpecDetails == InitDetails /\ [][NextDetails]_vars

----------------------------------------------------------------------------
(* Reading a returned document.                                            *)

\* the last call was getDeviceProfile and it returned a document
Returned == result.op = "getDeviceProfile" /\ ~result.raised

Elems(list) == {list[i] : i \in DOMAIN list}

VideoDirectPlays(doc) == {r \in Elems(doc.DirectPlayProfiles) : r.Type = "Video"}
AudioDirectPlays(doc) == {r \in Elems(doc.DirectPlayProfiles) : r.Type = "Audio"}
VideoTranscodings(doc) == {r \in Elems(doc.TranscodingProfiles) : r.Type = "Video"}

\* the Video CodecProfiles naming codec
CodecProfilesOf(doc, codec) ==
    {r \in Elems(doc.CodecProfiles) : "Codec" \in DOMAIN r /\ r.Codec = codec}

\* the conditions on property in a CodecProfile
ConditionsOn(profile, property) ==
    {c \in Elems(profile.Conditions) : c.Property = property}

NoDuplicates(list) == Cardinality(Elems(list)) = Len(list)

\* what the platform answers, read off the platform and not off the probes
OnTv == platform.tizen \/ platform.userAgent # <<>>
Answers264 == platform.canPlayType = "function" /\ T_h264 \in platform.can
AnswersHevc ==
    platform.canPlayType = "function"
    /\ {T_hvc1, T_hev1, T_hvc1_0, T_hev1_0} \cap platform.can # {}
AnswersAv1 == platform.canPlayType = "function" /\ {T_av1_08, T_av1_10} \subseteq platform.can
CeilingPresent == OnTv /\ platform.webapis = "fhd"

\* the probe of a video codec name, on the current platform
CodecProbe(codec) ==
    CASE codec = "h264" -> canPlayH264(platform)
      [] codec = "hevc" -> canPlayHevc(platform)
      [] codec = "av1" -> canPlayAv1(platform)
      [] OTHER -> FALSE

\* the probe of a direct-play container; mp4 and m4v have none
ContainerProbe(container) ==
    CASE container = "mkv" -> canPlayMkv(platform)
      [] container \in {"ts", "mpegts"} -> canPlayTs(platform)
      [] container = "hls" -> canPlayHls(platform, canPlayHlsMemo)
      [] OTHER -> TRUE

----------------------------------------------------------------------------
(* C1: every video codec listed by a Video DirectPlayProfile or            *)
(* TranscodingProfile of a returned document is one whose probe returns    *)
(* true on that platform, and every direct-play container one whose probe  *)
(* reports it playable; the ts/mpegts rule lists h264 only when            *)
(* canPlayH264 is true.  The code lists h264 in the ts/mpegts rule         *)
(* unconditionally, so this is violated on a TV platform whose media       *)
(* element does not answer the H.264 type string.                          *)
C1_OffersOnlyProbedCodecs ==
    Returned =>
        /\ \A r \in VideoDirectPlays(result.value) :
             /\ \A c \in Elems(r.VideoCodec) : CodecProbe(c)
             /\ \A k \in Elems(r.Container) : ContainerProbe(k)
        /\ \A r \in VideoTranscodings(result.value) :
             \A c \in Elems(r.VideoCodec) : CodecProbe(c)

C3_SameFactsSameDocument ==
    (seen # <<>> /\ Returned /\ seen[1].platform = platform)
        => result.value = seen[1].value

\* a second call on the platform of a remembered one, with another options argument,
\* while the memo holds an answer the platform of the two calls would not give
C3_Witness ==
    /\ seen # <<>> /\ Returned /\ seen[1].platform = platform
    /\ seen[1].options # result.options
    /\ Answers264
    /\ canPlayHlsMemo = <<TRUE>>
    /\ ~canPlayNativeHls(platform) /\ ~canPlayHlsWithMSE(platform)

----------------------------------------------------------------------------
RECURSIVE IsSubsequence(_, _)
\* s is t with some elements left out
IsSubsequence(s, t) ==
    IF s = <<>> THEN TRUE
    ELSE IF t = <<>> THEN FALSE
    ELSE IF Head(s) = Head(t) THEN IsSubsequence(Tail(s), Tail(t))
    ELSE IsSubsequence(s, Tail(t))

\* the type strings whose answer decides an audio codec fact, and the codec names
\* the fact adds to a list
AudioFactTypes == {T_ac3, T_eac3, T_dtsMinus, T_dtsPlus, T_opus, T_flac}
AddedCodecs(t) ==
    CASE t = T_ac3 -> {"ac3"}
      [] t = T_eac3 -> {"eac3"}
      [] t \in {T_dtsMinus, T_dtsPlus} -> {"dca", "dts"}
      [] t = T_opus -> {"opus"}
      [] t = T_flac -> {"flac"}

\* list2 holds list1 in order, and nothing more than the codecs in added
Extends(list1, list2, added) ==
    /\ IsSubsequence(list1, list2)
    /\ Elems(list2) \ Elems(list1) \subseteq added

\* every rule and condition of doc1 is in doc2, codec lists only extended by added
Monotone(doc1, doc2, added) ==
    /\ \A r1 \in Elems(doc1.DirectPlayProfiles) :
         \E r2 \in Elems(doc2.DirectPlayProfiles) :
            /\ r2.Type = r1.Type
            /\ r2.Container = r1.Container
            /\ r1.Type = "Video" =>
                 /\ Extends(r1.VideoCodec, r2.VideoCodec, {})
                 /\ Extends(r1.AudioCodec, r2.AudioCodec, added)
    /\ \A r1 \in Elems(doc1.TranscodingProfiles) :
         \E r2 \in Elems(doc2.TranscodingProfiles) :
            /\ r2.Type = r1.Type
            /\ r2.Container = r1.Container
            /\ r2.Protocol = r1.Protocol
            /\ Extends(r1.AudioCodec, r2.AudioCodec, added)
            /\ r1.Type = "Video" => Extends(r1.VideoCodec, r2.VideoCodec, {})
    /\ doc2.ContainerProfiles = doc1.ContainerProfiles
    /\ doc2.CodecProfiles = doc1.CodecProfiles

(* C4: answering one more of the audio codec type strings (AC-3, E-AC-3,   *)
(* DTS, Opus, FLAC) removes nothing from the document just returned: each  *)
(* DirectPlayProfile, TranscodingProfile and condition is still there, and *)
(* each codec list keeps its codecs in order, only the new codec added.    *)
C4_AudioFactsMonotone ==
    Returned =>
        \A t \in AudioFactTypes \ platform.can :
            Monotone(result.value,
                     getDeviceProfile([platform EXCEPT !.can = @ \cup {t}],
                                      canPlayHlsMemo, result.options),
                     AddedCodecs(t))

\* a document whose video rules end with flac, on a platform that does not answer
\* E-AC-3: the new codec goes inside the list, not at its end
C4_Witness ==
    /\ Returned
    /\ ~OnTv
    /\ T_flac \in platform.can /\ T_eac3 \notin platform.can
    /\ \E r \in VideoDirectPlays(result.value) :
         r.AudioCodec[Len(r.AudioCodec)] = "flac"

----------------------------------------------------------------------------
(* C5: in a returned document the h264, hevc and av1 CodecProfiles carry   *)
(* a VideoBitrate condition exactly when the platform has a bitrate        *)
(* ceiling (TV platform, panel query answering "not UHD"); that condition  *)
(* is LessThanEqual 20000000 with IsRequired = true, and without a ceiling *)
(* they carry no VideoBitrate condition.                                   *)
C5_BitrateRequiredIffCeiling ==
    Returned =>
        \A codec \in {"h264", "hevc", "av1"} :
            \A r \in CodecProfilesOf(result.value, codec) :
                /\ \A c \in ConditionsOn(r, "VideoBitrate") :
                     (c.IsRequired = TRUE) <=> CeilingPresent
                /\ CeilingPresent =>
                     ConditionsOn(r, "VideoBitrate") =
                        {Cond("LessThanEqual", "VideoBitrate", "20000000", TRUE)}
                /\ ~CeilingPresent => ConditionsOn(r, "VideoBitrate") = {}

\* a document with the three CodecProfiles, built under a ceiling
C5_Witness ==
    /\ Returned
    /\ CeilingPresent
    /\ \A codec \in {"h264", "hevc", "av1"} : CodecProfilesOf(result.value, codec) # {}

----------------------------------------------------------------------------
DvFallbackFamily ==
    {"DOVIWithHDR10", "DOVIWithHDR10Plus", "DOVIWithSDR", "DOVIWithHLG",
     "DOVIWithEL", "DOVIWithELHDR10Plus", "DOVIInvalid"}

\* the VideoRangeType list of a CodecProfile
RangeTypes(profile) == (CHOOSE c \in ConditionsOn(profile, "VideoRangeType") : TRUE).Value

(* C6: supportsDolbyVision() is false on every platform; from version 3 on *)
(* the VideoRangeType sets of the hevc and of the av1 CodecProfile both    *)
(* hold the whole DV-fallback family and are equal; below version 3        *)
(* neither holds a member of it.  Violated: the av1 list leaves out        *)
(* DOVIWithSDR and DOVIWithHLG.                                            *)
C6_DolbyVisionPolicy ==
    /\ ~supportsDolbyVision(platform)
    /\ Returned =>
         \A h \in CodecProfilesOf(result.value, "hevc") :
            /\ IF getTizenVersion(platform) >= 30
               THEN DvFallbackFamily \subseteq Elems(RangeTypes(h))
               ELSE DvFallbackFamily \cap Elems(RangeTypes(h)) = {}
            /\ \A a \in CodecProfilesOf(result.value, "av1") :
                 IF getTizenVersion(platform) >= 30
                 THEN /\ DvFallbackFamily \subseteq Elems(RangeTypes(a))
                      /\ Elems(RangeTypes(a)) = Elems(RangeTypes(h))
                 ELSE DvFallbackFamily \cap Elems(RangeTypes(a)) = {}

----------------------------------------------------------------------------
\* every condition of every ContainerProfile and CodecProfile of a document
AllConditions(doc) ==
    UNION {Elems(r.Conditions) : r \in Elems(doc.ContainerProfiles) \cup Elems(doc.CodecProfiles)}

\* the generic-browser scenario: not the TV platform, the media element answers the
\* H.264 type string and no other, no MediaSource, and canPlayHls() says no
GenericH264Only ==
    /\ ~OnTv
    /\ platform.canPlayType = "function"
    /\ platform.can = {T_h264}
    /\ ~platform.MediaSource
    /\ canPlayHlsMemo = <<FALSE>>

\* what the scenario's document holds besides its hevc CodecProfile
GenericH264OnlyDocument(doc) ==
    /\ doc.DirectPlayProfiles =
         << [Container |-> <<"mp4", "m4v">>, Type |-> "Video",
             VideoCodec |-> <<"h264">>, AudioCodec |-> <<"aac", "mp3">>] >>
    /\ \E r \in CodecProfilesOf(doc, "h264") :
         /\ CodecProfilesOf(doc, "h264") = {r}
         /\ ConditionsOn(r, "VideoLevel") = {Cond("LessThanEqual", "VideoLevel", "42", FALSE)}
         /\ RangeTypes(r) = <<"SDR">>
    /\ CodecProfilesOf(doc, "av1") = {}
    /\ \A r \in Elems(doc.DirectPlayProfiles) : r.Container # <<"ts", "mpegts">>
    /\ \A c \in AllConditions(doc) : c.Property # "VideoBitrate"

----------------------------------------------------------------------------
\* the TV scenario: user agent "Tizen 5.5", panel query answering "not UHD"
Tv55SubUhd == platform.userAgent = <<"Tizen", 5, 5>> /\ platform.webapis = "fhd"

(* C8: on TV platform version 5.5 with a sub-4K panel the document holds   *)
(* an av1 CodecProfile, the h264 VideoLevel ceiling 52, the NumStreams <=  *)
(* 32 container cap, a required VideoBitrate <= 20000000 condition on each *)
(* of the h264, hevc and av1 CodecProfiles, and neither dts nor dca in the *)
(* AudioCodec list of any DirectPlayProfile.                               *)
C8_Tv55Scenario ==
    (Returned /\ Tv55SubUhd) =>
        /\ \A codec \in {"h264", "hevc", "av1"} :
             /\ Cardinality(CodecProfilesOf(result.value, codec)) = 1
             /\ \A r \in CodecProfilesOf(result.value, codec) :
                  Cond("LessThanEqual", "VideoBitrate", "20000000", TRUE)
                      \in Elems(r.Conditions)
        /\ \A r \in CodecProfilesOf(result.value, "h264") :
             ConditionsOn(r, "VideoLevel") = {Cond("LessThanEqual", "VideoLevel", "52", FALSE)}
        /\ \E r \in Elems(result.value.ContainerProfiles) :
             Cond("LessThanEqual", "NumStreams", "32", FALSE) \in Elems(r.Conditions)
        /\ \A r \in VideoDirectPlays(result.value) :
             Elems(r.AudioCodec) \cap {"dts", "dca"} = {}
        /\ \A r \in AudioDirectPlays(result.value) :
             Elems(r.Container) \cap {"dts", "dca"} = {}

\* the scenario's document, from a media element that answers neither AV1 type string
C8_Witness == Returned /\ Tv55SubUhd /\ ~AnswersAv1

----------------------------------------------------------------------------
\* the TV scenario of version 3.0
Tv30 == platform.userAgent = <<"Tizen", 3, 0>>

(* C9: on TV platform version 3.0 the VideoRangeType list of the hevc      *)
(* CodecProfile holds SDR, HDR10, HDR10Plus, HLG and the seven DV-fallback *)
(* types, nothing else and nothing twice, and supportsDolbyVision() is     *)
(* false.                                                                  *)
C9_Tv30HevcRangeTypes ==
    (Returned /\ Tv30) =>
        /\ Cardinality(CodecProfilesOf(result.value, "hevc")) = 1
        /\ \A r \in CodecProfilesOf(result.value, "hevc") :
             /\ Elems(RangeTypes(r)) =
                  {"SDR", "HDR10", "HDR10Plus", "HLG"} \cup DvFallbackFamily
             /\ NoDuplicates(RangeTypes(r))
        /\ ~supportsDolbyVision(platform)

C9_Witness == Returned /\ Tv30

----------------------------------------------------------------------------
(* C10: no call of the public API raises: on every platform, also one      *)
(* whose canPlayType is missing, answers a non-string or throws, the probe *)
(* returns a value and getDeviceProfile a document.  Violated: a           *)
(* canPlayType that throws or answers a non-string makes every probe that  *)
(* queries it, and getDeviceProfile, raise.                                *)
C10_NoProbeFailureReachesCaller ==
    result.op # "none" => ~result.raised

----------------------------------------------------------------------------
(* C11: every returned document has MaxStreamingBitrate 120000000,         *)
(* MaxStaticBitrate 100000000, MusicStreamingTranscodingBitrate 384000,    *)
(* the eight subtitle rules (vtt, srt, ass, ssa External; pgssub, dvdsub,  *)
(* dvbsub, sub Encode) and the one response rule (Video, m4v, video/mp4),  *)
(* on every platform and for every options argument.                       *)
C11_FixedParts ==
    Returned =>
        /\ result.value.MaxStreamingBitrate = 120000000
        /\ result.value.MaxStaticBitrate = 100000000
        /\ result.value.MusicStreamingTranscodingBitrate = 384000
        /\ Len(result.value.SubtitleProfiles) = 8
        /\ Elems(result.value.SubtitleProfiles) =
             {[Format |-> f, Method |-> "External"] : f \in {"vtt", "srt", "ass", "ssa"}}
             \cup {[Format |-> f, Method |-> "Encode"] :
                      f \in {"pgssub", "dvdsub", "dvbsub", "sub"}}
        /\ result.value.ResponseProfiles =
             <<[Type |-> "Video", Container |-> "m4v", MimeType |-> "video/mp4"]>>

\* a document built on the TV platform under a ceiling, from a call given options
C11_Witness ==
    /\ Returned
    /\ CeilingPresent
    /\ result.options = "{maxBitrate}"

----------------------------------------------------------------------------
\* the document holds the HLS rules: the hls DirectPlayProfile and the HLS
\* TranscodingProfile
HlsRules(doc) ==
    /\ \E r \in VideoDirectPlays(doc) : r.Container = <<"hls">>
    /\ VideoTranscodings(doc) # {}

NoHlsRules(doc) ==
    /\ \A r \in VideoDirectPlays(doc) : r.Container # <<"hls">>
    /\ VideoTranscodings(doc) = {}

\* one step of a call sequence, with the platform free to change between calls
C12_Step ==
    \* a memo that is set is never reset or overwritten
    /\ canPlayHlsMemo # <<>> => canPlayHlsMemo' = canPlayHlsMemo
    \* what canPlayHls() returns is the memo: the value it just stored, or the one
    \* stored before
    /\ (result'.op = "canPlayHls" /\ ~result'.raised)
         => canPlayHlsMemo' = <<result'.value>>
    \* getDeviceProfile emits the HLS rules by the memo, not by what the platform
    \* supports at the time of the call
    /\ (result'.op = "getDeviceProfile" /\ ~result'.raised)
         => /\ canPlayHlsMemo' # <<>>
            /\ IF canPlayHlsMemo'[1] /\ (Answers264' \/ OnTv')
               THEN HlsRules(result'.value)
               ELSE NoHlsRules(result'.value)

(* C12: once a canPlayHls() evaluation has returned a value v, the memo    *)
(* holds v for good: every later canPlayHls() call returns v and every     *)
(* later getDeviceProfile emits or leaves out the HLS rules by v, whatever *)
(* happens afterwards to native HLS support or to MediaSource.             *)
C12_HlsMemoIsFinal == [][C12_Step]_vars

\* a document without the HLS rules, returned on a platform that has come to support
\* HLS after the memo was set to false
C12_Witness ==
    /\ Returned
    /\ Answers264
    /\ canPlayHlsMemo = <<FALSE>>
    /\ platform.MediaSource \/ T_mpegURL \in platform.can
    /\ NoHlsRules(result.value)

----------------------------------------------------------------------------
(* C13: however the callers' first canPlayHls() evaluations are ordered,   *)
(* nothing is corrupted: a caller that finds the cache unset computes      *)
(* native HLS support OR MediaSource present and stores it, every caller   *)
(* receives the value the first evaluation stored, and the cache holds     *)
(* that value and no other, also when the platform changes between two     *)
(* callers.                                                                *)
C13_CallersAgree ==
    \A i \in DOMAIN seen :
        ~seen[i].received.raised =>
            /\ canPlayHlsMemo = <<seen[i].received.value>>
            /\ seen[i].memoBefore = <<>> => seen[i].received.value = seen[i].supported
            /\ \A j \in DOMAIN seen :
                 ~seen[j].received.raised => seen[j].received.value = seen[i].received.value

\* three callers have run, the platform's HLS support having changed after the first:
\* the later ones would have computed another value
C13_Witness ==
    /\ Len(seen) >= 3
    /\ ~seen[1].received.raised
    /\ seen[2].supported # seen[1].supported
    /\ seen[3].supported # seen[1].supported

----------------------------------------------------------------------------
(* C14: getGlobalMaxVideoBitrate never raises and never returns 0; it      *)
(* returns 20000000 when the platform is the TV platform, the product-info *)
(* API is there and its panel query returns "not UHD", and null in every   *)
(* other case: API absent, query raising, UHD panel, generic browser.      *)
C14_BitrateProbeFailsOpen ==
    result.op = "getGlobalMaxVideoBitrate" =>
        /\ ~result.raised
        /\ result.value # <<0>>
        /\ result.value =
             IF OnTv /\ platform.webapis = "fhd" THEN <<20000000>> ELSE <<>>

\* the probe has run on a generic browser that has a product-info API reporting a
\* panel that is not UHD
C14_Witness ==
    /\ result.op = "getGlobalMaxVideoBitrate"
    /\ ~OnTv
    /\ platform.webapis = "fhd"

----------------------------------------------------------------------------
\* the TV platform is detected and its user agent holds no major.minor version
VersionDefaulted == OnTv /\ Len(platform.userAgent) < 3

\* the version-gated rules of version 4.0: no DTS, the DV-fallback family in the hevc
\* range types, h264 level 51, HLS transcoding into ts, the stream cap
Version40Rules(doc) ==
    /\ \A r \in VideoDirectPlays(doc) : Elems(r.AudioCodec) \cap {"dts", "dca"} = {}
    /\ \A r \in Elems(doc.TranscodingProfiles) : Elems(r.AudioCodec) \cap {"dts", "dca"} = {}
    /\ \E r \in CodecProfilesOf(doc, "hevc") : DvFallbackFamily \subseteq Elems(RangeTypes(r))
    /\ \E r \in CodecProfilesOf(doc, "h264") :
         ConditionsOn(r, "VideoLevel") = {Cond("LessThanEqual", "VideoLevel", "51", FALSE)}
    /\ \E r \in VideoTranscodings(doc) : r.Protocol = "hls" /\ r.Container = "ts"
    /\ doc.ContainerProfiles =
         <<[Type |-> "Video",
            Conditions |-> <<Cond("LessThanEqual", "NumStreams", "32", FALSE)>>]>>

(* C15: getTizenVersion returns 0 exactly when the TV platform is not      *)
(* detected and 4.0 when it is detected without a major.minor version in   *)
(* the user agent; in that case getDeviceProfile still returns a document, *)
(* the one of a "Tizen 4.0" user agent, with the rules of version 4.0.     *)
(* Violated: on such a platform a media element whose canPlayType throws   *)
(* or answers a non-string makes getDeviceProfile raise.                   *)
C15_VersionDefault ==
    /\ result.op = "getTizenVersion" =>
         /\ ~result.raised
         /\ result.value = 0 <=> ~OnTv
         /\ VersionDefaulted => result.value = 40
    /\ (result.op = "getDeviceProfile" /\ VersionDefaulted) =>
         /\ ~result.raised
         /\ Version40Rules(result.value)
         /\ result.value =
              getDeviceProfile([platform EXCEPT !.tizen = TRUE, !.userAgent = <<"Tizen", 4, 0>>],
                               canPlayHlsMemo, result.options)

----------------------------------------------------------------------------
\* a document was returned where the product-info API was absent or its panel query
\* raised, and another is returned now that the API reports a panel that is not UHD
PanelQueryCameUp ==
    /\ seen # <<>>
    /\ Returned
    /\ OnTv
    /\ seen[1].platform.webapis \in {"undefined", "noProductinfo", "throws"}
    /\ platform.webapis = "fhd"

(* C16: the bitrate ceiling is probed again by every getDeviceProfile: a   *)
(* document built while the product-info API was absent or raising has no  *)
(* VideoBitrate condition, and the next one, built after the API has come  *)
(* to report a panel that is not UHD, has the 20000000 conditions on its   *)
(* h264, hevc and av1 CodecProfiles and on the codec-less one.             *)
C16_CeilingProbedEveryCall ==
    PanelQueryCameUp =>
        /\ \A c \in AllConditions(seen[1].value) : c.Property # "VideoBitrate"
        /\ \A codec \in {"h264", "hevc"} : CodecProfilesOf(result.value, codec) # {}
        /\ \A codec \in {"h264", "hevc", "av1"} :
             \A r \in CodecProfilesOf(result.value, codec) :
                ConditionsOn(r, "VideoBitrate") =
                    {Cond("LessThanEqual", "VideoBitrate", "20000000", TRUE)}
        /\ \E r \in Elems(result.value.CodecProfiles) :
             /\ r.Type = "Video"
             /\ "Codec" \notin DOMAIN r
             /\ \E c \in Elems(r.Conditions) :
                  c.Property = "VideoBitrate" /\ c.Value = "20000000"

\* the two documents, the first built while the panel query raised
C16_Witness ==
    /\ PanelQueryCameUp
    /\ seen[1].platform.webapis = "throws"
    /\ CodecProfilesOf(result.value, "av1") # {}

----------------------------------------------------------------------------
\* the Video CodecProfiles without a Codec field
CodeclessVideoProfiles(doc) ==
    {r \in Elems(doc.CodecProfiles) : r.Type = "Video" /\ "Codec" \notin DOMAIN r}

\* the one condition of profile is VideoBitrate LessThanEqual 20000000
OnlyCeilingCondition(profile) ==
    /\ Len(profile.Conditions) = 1
    /\ profile.Conditions[1].Condition = "LessThanEqual"
    /\ profile.Conditions[1].Property = "VideoBitrate"
    /\ profile.Conditions[1].Value = "20000000"

(* C17: a returned document holds a Video CodecProfile without a Codec     *)
(* field exactly when the platform has a bitrate ceiling; it is then the   *)
(* only one, its only condition is VideoBitrate LessThanEqual the ceiling, *)
(* and that condition carries IsRequired = false.  Violated: the condition *)
(* object of the code has no IsRequired field at all.                      *)
C17_GlobalConditionAdvisory ==
    Returned =>
        /\ CeilingPresent <=> CodeclessVideoProfiles(result.value) # {}
        /\ Cardinality(CodeclessVideoProfiles(result.value)) <= 1
        /\ \A r \in CodeclessVideoProfiles(result.value) :
             /\ OnlyCeilingCondition(r)
             /\ "IsRequired" \in DOMAIN r.Conditions[1]
             /\ r.Conditions[1].IsRequired = FALSE

----------------------------------------------------------------------------
\* the stream cap: the one Video ContainerProfile, NumStreams LessThanEqual 32, advisory
StreamCap ==
    <<[Type |-> "Video", Conditions |-> <<Cond("LessThanEqual", "NumStreams", "32", FALSE)>>]>>

(* C18: a returned document holds the stream cap, as its only              *)
(* ContainerProfile, exactly when the platform is the TV platform at a     *)
(* version below 6.5; off the TV platform and from version 6.5 on it holds *)
(* no ContainerProfile.  Violated: a platform that is not the TV platform  *)
(* has version 0, which is below 6.5, and gets the cap.                    *)
C18_StreamCapOnTvBelow65 ==
    Returned =>
        IF OnTv /\ getTizenVersion(platform) < 65
        THEN result.value.ContainerProfiles = StreamCap
        ELSE result.value.ContainerProfiles = <<>>

----------------------------------------------------------------------------
\* the Video DirectPlayProfiles whose AudioCodec is the video-container audio list
\* (videoAudioCodecs): mp4/m4v, mkv and ts/mpegts; the hls rule has a list of its own
VideoContainerDirectPlays(doc) ==
    {r \in VideoDirectPlays(doc) : r.Container # <<"hls">>}

AnswersFlac == platform.canPlayType = "function" /\ T_flac \in platform.can

(* C19: on the TV platform no Video DirectPlayProfile (mp4/m4v, mkv,       *)
(* ts/mpegts, hls) of a returned document lists flac as an audio codec,    *)
(* while the document always holds the Audio DirectPlayProfile of          *)
(* container flac; on a generic browser the video-container audio list     *)
(* holds flac exactly when the media element answers the flac type string. *)
C19_FlacAsymmetry ==
    Returned =>
        IF OnTv
        THEN /\ \A r \in VideoDirectPlays(result.value) : "flac" \notin Elems(r.AudioCodec)
             /\ \E r \in AudioDirectPlays(result.value) : r.Container = <<"flac">>
        ELSE /\ \A r \in VideoContainerDirectPlays(result.value) :
                  "flac" \in Elems(r.AudioCodec) <=> AnswersFlac
             /\ (\E r \in AudioDirectPlays(result.value) : r.Container = <<"flac">>)
                  <=> AnswersFlac

\* a generic browser's document with flac in the audio list of a video container
C19_Witness ==
    /\ Returned
    /\ ~OnTv
    /\ \E r \in VideoContainerDirectPlays(result.value) : "flac" \in Elems(r.AudioCodec)

----------------------------------------------------------------------------
\* the media element answers one of the two DTS type strings
AnswersDts ==
    platform.canPlayType = "function" /\ {T_dtsMinus, T_dtsPlus} \cap platform.can # {}

\* the AudioCodec lists of a document: those of its Video DirectPlayProfiles and of
\* its TranscodingProfiles (an Audio DirectPlayProfile has none)
AudioCodecLists(doc) ==
    {r.AudioCodec : r \in VideoDirectPlays(doc)}
    \cup {r.AudioCodec : r \in Elems(doc.TranscodingProfiles)}

(* C20: from version 4 on canPlayDts() is false whatever the media element *)
(* answers to the DTS type strings, and no AudioCodec list of a returned   *)
(* document holds dts or dca; below version 4, generic browsers at version *)
(* 0 included, the video-container audio list holds dca and dts exactly    *)
(* when the element answers one of the two DTS type strings.               *)
C20_DtsPolicy ==
    /\ (result.op = "canPlayDts" /\ getTizenVersion(platform) >= 40) =>
         ~result.raised /\ result.value = FALSE
    /\ Returned =>
         IF getTizenVersion(platform) >= 40
         THEN \A list \in AudioCodecLists(result.value) : Elems(list) \cap {"dts", "dca"} = {}
         ELSE \A r \in VideoContainerDirectPlays(result.value) :
                 IF AnswersDts
                 THEN {"dts", "dca"} \subseteq Elems(r.AudioCodec)
                 ELSE Elems(r.AudioCodec) \cap {"dts", "dca"} = {}

\* a document of a TV platform of version 4 or later whose media element answers a
\* DTS type string
C20_Witness ==
    /\ Returned
    /\ OnTv
    /\ getTizenVersion(platform) >= 40
    /\ AnswersDts
    /\ VideoContainerDirectPlays(result.value) # {}

----------------------------------------------------------------------------
(* C21: as claimed: a returned document holds the hls DirectPlayProfile    *)
(* and the HLS TranscodingProfile whenever the platform supports HLS       *)
(* natively or has MediaSource, and neither of them whenever it does not;  *)
(* nothing else decides.  Violated: the rules also need a video codec to   *)
(* list, and HLS support is the memo's, not the platform's of the moment.  *)
C21_HlsRulesBySupportAlone ==
    Returned =>
        IF HlsSupported THEN HlsRules(result.value) ELSE NoHlsRules(result.value)

\* one step: the memo is set to what the platform supports at that moment, and a
\* document returned by the step holds the HLS rules by the memo and the codec list
C21_Step ==
    /\ (canPlayHlsMemo = <<>> /\ canPlayHlsMemo' # <<>>) => canPlayHlsMemo' = <<HlsSupported>>
    /\ Returned' =>
         IF canPlayHls(platform', canPlayHlsMemo') /\ (Answers264' \/ OnTv')
         THEN HlsRules(result'.value)
         ELSE NoHlsRules(result'.value)

(* C21 amended: the two HLS rules are emitted together, exactly when       *)
(* canPlayHls() is true (native HLS support OR MediaSource, as found by    *)
(* the first evaluation) and the HLS video codec list is not empty, that   *)
(* is H.264 is supported or the platform is the TV platform.               *)
C21_HlsRulesByMemoAndCodecs == [][C21_Step]_vars

\* a generic browser with MediaSource whose media element does not answer the H.264
\* type string: HLS can be played, and the document has no HLS rule
C21_Witness ==
    /\ Returned
    /\ ~OnTv
    /\ platform.MediaSource
    /\ canPlayHlsMemo = <<TRUE>>
    /\ ~Answers264
    /\ NoHlsRules(result.value)
    /\ Len(result.value.DirectPlayProfiles) > 0

----------------------------------------------------------------------------
(* C22: the HLS TranscodingProfile of a returned document has Container    *)
(* mp4 when the platform version is 5 or more and ts otherwise; a generic  *)
(* browser, version 0, gets ts, also when it plays HLS through MediaSource *)
(* alone.                                                                  *)
C22_HlsContainerByVersion ==
    Returned =>
        \A r \in VideoTranscodings(result.value) :
            /\ r.Protocol = "hls"
            /\ r.Container = IF getTizenVersion(platform) >= 50 THEN "mp4" ELSE "ts"
            /\ ~OnTv => r.Container = "ts"

\* the HLS TranscodingProfile of a generic browser that has MediaSource and no native
\* HLS support
C22_Witness ==
    /\ Returned
    /\ ~OnTv
    /\ platform.MediaSource
    /\ {T_mpegURL, T_appleURL} \cap platform.can = {}
    /\ VideoTranscodings(result.value) # {}

----------------------------------------------------------------------------
\* AV1 as the claim declares it supported, read off the platform: version 5.5 or
\* more, or a media element that answers both AV1 type strings
Av1Declared == getTizenVersion(platform) >= 55 \/ AnswersAv1

(* C23: canPlayAv1() is true from version 5.5 on and below it exactly when *)
(* the media element answers both AV1 type strings (8-bit and 10-bit);     *)
(* a returned document holds the av1 CodecProfile exactly then, which is   *)
(* exactly when the mp4/m4v DirectPlayProfile lists av1, and that profile  *)
(* has VideoProfile main only and VideoLevel LessThanEqual 15.             *)
C23_Av1Policy ==
    /\ (result.op = "canPlayAv1" /\ ~result.raised) => result.value = Av1Declared
    /\ (result.op = "canPlayAv1" /\ getTizenVersion(platform) >= 55) => ~result.raised
    /\ Returned =>
         /\ Cardinality(CodecProfilesOf(result.value, "av1")) = IF Av1Declared THEN 1 ELSE 0
         /\ Av1Declared <=>
               \E r \in VideoDirectPlays(result.value) :
                   r.Container = <<"mp4", "m4v">> /\ "av1" \in Elems(r.VideoCodec)
         /\ \A r \in CodecProfilesOf(result.value, "av1") :
               /\ ConditionsOn(r, "VideoProfile") =
                    {Cond("EqualsAny", "VideoProfile", <<"main">>, FALSE)}
               /\ ConditionsOn(r, "VideoLevel") =
                    {Cond("LessThanEqual", "VideoLevel", "15", FALSE)}

\* a document with the av1 CodecProfile, from a platform below version 5.5 whose
\* media element answers both AV1 type strings
C23_Witness ==
    /\ Returned
    /\ getTizenVersion(platform) < 55
    /\ AnswersAv1
    /\ CodecProfilesOf(result.value, "av1") # {}

----------------------------------------------------------------------------
\* shouldUseHlsJs() has just returned true, and the next call, made before the
\* platform changes, is canPlayHls()
HlsJsThenCanPlayHls ==
    /\ result.op = "shouldUseHlsJs"
    /\ ~result.raised
    /\ result.value
    /\ result'.op = "canPlayHls"

\* shouldUseHlsJs() returns true exactly off the TV platform, with MediaSource and
\* without native HLS support
HlsJsAnswer ==
    (result'.op = "shouldUseHlsJs" /\ ~result'.raised) =>
        result'.value = (/\ ~OnTv'
                         /\ platform'.MediaSource
                         /\ {T_mpegURL, T_appleURL} \cap platform'.can = {})

C24_StepAsClaimed ==
    /\ HlsJsAnswer
    /\ HlsJsThenCanPlayHls => (~result'.raised /\ result'.value)

C24_Step ==
    /\ HlsJsAnswer
    /\ HlsJsThenCanPlayHls =>
         /\ ~result'.raised
         /\ result'.value = IF canPlayHlsMemo = <<>> THEN TRUE ELSE canPlayHlsMemo[1]

(* C24: as claimed: over any sequence of calls and platform changes, when  *)
(* shouldUseHlsJs() returns true a canPlayHls() call made in the same      *)
(* platform state returns true.  Violated: canPlayHls() returns the memo,  *)
(* which is false when it was set before MediaSource appeared.             *)
C24_HlsJsImpliesCanPlayHls == [][C24_StepAsClaimed]_vars

(* C24 amended: when shouldUseHlsJs() returns true, a canPlayHls() call    *)
(* made in the same platform state returns true if it is the first         *)
(* evaluation of the process, and the memoized value otherwise.            *)
C24_HlsJsAgainstMemo == [][C24_Step]_vars

\* shouldUseHlsJs() has returned true while the memo says HLS cannot be played
C24_Witness ==
    /\ result.op = "shouldUseHlsJs"
    /\ ~result.raised
    /\ result.value
    /\ canPlayHlsMemo = <<FALSE>>

----------------------------------------------------------------------------
\* every loadItem and loadEpisodes invocation has run to its end
AllLoadsCompleted == \A i \in 1..Len(loads) : loads[i].awaiting = "done"

\* the most recent loadItem invocation, the one made for the current itemId
LatestLoad ==
    CHOOSE i \in 1..Len(loads) :
        /\ loads[i].fn = "loadItem"
        /\ \A j \in (i + 1)..Len(loads) : loads[j].fn # "loadItem"

BelongsToLatest(v) == v \in {<<>>, <<details.itemId>>}

(* C25: once all outstanding loads have completed, item, seasons,          *)
(* episodes, cast, similar, the audio and subtitle stream lists and the    *)
(* two selections belong to the latest itemId, and isLoading is false      *)
(* only after the latest load has finished.                                *)
C25_LatestItemWins ==
    /\ AllLoadsCompleted =>
         /\ BelongsToLatest(details.item)
         /\ BelongsToLatest(details.seasons)
         /\ BelongsToLatest(details.episodes)
         /\ BelongsToLatest(details.cast)
         /\ BelongsToLatest(details.similar)
         /\ BelongsToLatest(details.audioStreams)
         /\ BelongsToLatest(details.subtitleStreams)
         /\ BelongsToLatest(details.selectedAudioIndex)
         /\ BelongsToLatest(details.selectedSubtitleIndex)
    /\ ~details.isLoading => loads[LatestLoad].awaiting = "done"

----------------------------------------------------------------------------
\* release M1.m1 is release M2.m2 or a later one
ReleaseGeq(M1, m1, M2, m2) == M1 > M2 \/ (M1 = M2 /\ m1 >= m2)

\* the release the platform's user agent names
Major == platform.userAgent[2]
Minor == platform.userAgent[3]

(* C26: for identification strings "Tizen M.m", getTizenVersion preserves  *)
(* release order: the version of M1.m1 is at least that of M2.m2 exactly   *)
(* when release M1.m1 is M2.m2 or later, and the threshold tests >= 4 (of  *)
(* canPlayDts) and >= 5.5 (of canPlayAv1) answer as the release order      *)
(* does, also with a minor part of two digits.                             *)
C26_VersionKeepsReleaseOrder ==
    /\ (result.op = "getTizenVersion" /\ ~result.raised) =>
          \A ua \in ReleaseUserAgents :
              (result.value >= getTizenVersion([platform EXCEPT !.userAgent = ua]))
                  <=> ReleaseGeq(Major, Minor, ua[2], ua[3])
    /\ (result.op = "canPlayDts" /\ ~result.raised) =>
          (result.value <=> ~ReleaseGeq(Major, Minor, 4, 0))
    /\ (result.op = "canPlayAv1" /\ ~result.raised) =>
          (result.value <=> ReleaseGeq(Major, Minor, 5, 5))

====
